---------------------------- MODULE Spec2Model ----------------------------
(***************************************************************************)
(* Three programs of the repository, each with its own specification:      *)
(*                                                                         *)
(*   Spec       src/cli-rewind-py/main.py     terminal loop with /rewind   *)
(*   CallSpec   src/cli-rewind-py/main.py     run_session, any rewind_to   *)
(*   WebSpec    src/web/backend/api.py        session registry and relay   *)
(*   WatchSpec  src/cli-interrupt-py/main.py  Esc watcher and its channel  *)
(*                                                                         *)
(* The programs share no state; each specification leaves the variables of *)
(* the other two unchanged.                                                *)
(***************************************************************************)
EXTENDS Integers, Sequences, FiniteSets, TLC

None == "None"

(***************************************************************************)
(* Bounds of the model.                                                    *)
(***************************************************************************)
MaxQueries == 3      \* queries issued by the rewind terminal loop
MaxEvents == 2       \* assistant events of one turn before its result event
NumReqs == 2         \* web requests that can be open at once
MaxStarts == 4       \* web requests started in all
MaxMid == 2          \* events of one web response between init and result
NumNewIds == 1       \* session ids the agent gives out while the server runs
MaxChannels == 2     \* turns of the interrupt terminal loop
MaxKeys == 2         \* keys pressed while one response streams

---------------------------------------------------------------------------
(***************************************************************************)
(* cli-rewind-py: state.                                                   *)
(***************************************************************************)
VARIABLES
    session_id,   \* SessionState.session_id
    history,      \* SessionState.history: Seq of HistoryEntry
    rewind_to,    \* main's rewind_to, the argument of the next run_session
    rpc,          \* where the terminal loop is
    options,      \* options of the connection run_session opened
    restored,     \* argument of the client.rewind_files call that led to this
                  \* connection, if one did
    user_input,   \* the line read at the prompt (stripped when queried)
    current_user_uuid,
    current_assistant_uuid,
    interrupted,  \* the watcher called client.interrupt() in this turn
    nevents,      \* assistant events received in this turn
    nqueries,     \* queries issued so far
    next_uuid,    \* a uuid no event captured so far carries
    leading,      \* content of the first user event of this turn: "str", "list",
                  \* or "none" before any
    menu          \* the menu selection that led to this connection, if one did:
                  \* the history when it was made and the line typed

rvars == <<session_id, history, rewind_to, rpc, options, restored, user_input,
           current_user_uuid, current_assistant_uuid, interrupted, nevents,
           nqueries, next_uuid, leading, menu>>

(***************************************************************************)
(* web/backend/api.py: state.  Clients are numbered from 1 in the order    *)
(* ClaudeSDKClient(...) constructs them.                                   *)
(***************************************************************************)
VARIABLES
    registry,     \* _client_sessions: session id -> client, NoClient if absent
    nclients,     \* clients constructed so far
    agent_sid,    \* per client: the session id its agent reports, once connected
    open_queries, \* per client: queries whose result event nobody consumed yet
    req,          \* per request slot: the frame of generate_response
    nstarts,      \* requests started so far
    cited         \* session ids some client has received in an init record

wvars == <<registry, nclients, agent_sid, open_queries, req, nstarts, cited>>

(***************************************************************************)
(* cli-interrupt-py: state.  Channels are numbered from 1 in the order     *)
(* esc_interruptable arms them; each has one watcher task, and one call of *)
(* read_key_or_stop on an executor thread at a time.                       *)
(***************************************************************************)
VARIABLES
    mpc,          \* where main is: "prompt", "stream" or "exit"
    armed,        \* the channel main is inside, NoChannel outside the with
    nchannels,    \* channels armed so far
    wpc,          \* the watcher task of the last channel armed
    fut,          \* the executor future that task awaits
    thread,       \* per channel: its call of read_key_or_stop
    term,         \* the terminal's input mode
    interrupts,   \* client.interrupt() calls made for the last channel
    keys          \* keys read_key_or_stop returned for the last channel

ivars == <<mpc, armed, nchannels, wpc, fut, thread, term, interrupts, keys>>

vars == <<rvars, wvars, ivars>>

(***************************************************************************)
(* Lines typed at the terminal are sequences of characters.                *)
(***************************************************************************)
Exit == <<"/", "e", "x", "i", "t">>
ExitUpper == <<"/", "E", "X", "I", "T">>
Rewind == <<"/", "r", "e", "w", "i", "n", "d">>
RewindMixed == <<"/", "R", "e", "w", "i", "n", "d">>

PromptLines ==
    { <<>>, <<" ">>, <<"h">>, <<" ", "j">> }

InputLines == PromptLines \cup {Exit, ExitUpper, Rewind, RewindMixed}

EOF == <<"EOF">>

LowerChar(c) ==
    CASE c = "E" -> "e"
      [] c = "X" -> "x"
      [] c = "I" -> "i"
      [] c = "T" -> "t"
      [] c = "R" -> "r"
      [] OTHER -> c

Lower(s) == [i \in 1..Len(s) |-> LowerChar(s[i])]

RECURSIVE LStrip(_)
LStrip(s) ==
    IF s # <<>> /\ Head(s) = " " THEN LStrip(Tail(s)) ELSE s

RECURSIVE RStrip(_)
RStrip(s) ==
    IF s # <<>> /\ s[Len(s)] = " " THEN RStrip(SubSeq(s, 1, Len(s) - 1)) ELSE s

Strip(s) == RStrip(LStrip(s))

(***************************************************************************)
(* int(): an optional sign and decimal digits; anything else ValueError.   *)
(***************************************************************************)
Digits == {"0", "1", "2", "3", "4", "5", "6", "7", "8", "9"}

DigitVal(c) ==
    CASE c = "0" -> 0 [] c = "1" -> 1 [] c = "2" -> 2 [] c = "3" -> 3
      [] c = "4" -> 4 [] c = "5" -> 5 [] c = "6" -> 6 [] c = "7" -> 7
      [] c = "8" -> 8 [] OTHER -> 9

RECURSIVE DecVal(_)
DecVal(s) ==
    IF s = <<>> THEN 0 ELSE 10 * DecVal(SubSeq(s, 1, Len(s) - 1)) + DigitVal(s[Len(s)])

IsDigits(s) == s # <<>> /\ \A i \in 1..Len(s) : s[i] \in Digits

ValueError == [ok |-> FALSE, val |-> 0]

ParseInt(s) ==
    LET t == Strip(s) IN
    IF IsDigits(t) THEN [ok |-> TRUE, val |-> DecVal(t)]
    ELSE IF t # <<>> /\ Head(t) = "-" /\ IsDigits(Tail(t))
         THEN [ok |-> TRUE, val |-> 0 - DecVal(Tail(t))]
    ELSE IF t # <<>> /\ Head(t) = "+" /\ IsDigits(Tail(t))
         THEN [ok |-> TRUE, val |-> DecVal(Tail(t))]
    ELSE ValueError

MenuLines ==
    { EOF, <<>>, <<"x">>, <<"0">>, <<"1">>, <<" ", "2">>, <<"3">>, <<"4">>,
      <<"-", "1">>, <<"9">> }

(***************************************************************************)
(* Python sequence operations, 0-based as in the source.                   *)
(***************************************************************************)
At(s, i) == IF i >= 0 THEN s[i + 1] ELSE s[Len(s) + i + 1]

IndexOf(s, e) == CHOOSE i \in 0..(Len(s) - 1) :
                    /\ s[i + 1] = e
                    /\ \A j \in 0..(i - 1) : s[j + 1] # e

\* uuids are positive; a uuid variable that is None in the source holds NoUuid
NoUuid == 0

HistoryEntry(u, a, c) == [user_uuid |-> u, assistant_uuid |-> a, content |-> c]

add_message(h, u, a, c) == Append(h, HistoryEntry(u, a, c))

\* the first entry not excluded
get_all_targets(h) == h

get_rewind_targets(h) == IF Len(h) > 1 THEN SubSeq(h, 2, Len(h)) ELSE <<>>

(***************************************************************************)
(* show_rewind_menu: the selected entry, or None when cancelled.           *)
(***************************************************************************)
NoEntry == HistoryEntry(NoUuid, NoUuid, <<>>)

\* the number typed taken as a 0-based index, and 0 not tested
show_rewind_menu_zero_based(h, line) ==
    LET targets == get_rewind_targets(h)
        idx == IF line = EOF THEN ValueError ELSE ParseInt(line)
    IN  IF targets = <<>> THEN NoEntry
        ELSE IF ~idx.ok THEN NoEntry
        ELSE IF 0 <= idx.val /\ idx.val < Len(targets) THEN At(targets, idx.val)
        ELSE NoEntry

show_rewind_menu(h, line) ==
    LET targets == get_rewind_targets(h)
        idx == IF line = EOF THEN ValueError ELSE ParseInt(line)
    IN  IF targets = <<>> THEN NoEntry
        ELSE IF ~idx.ok THEN NoEntry
        ELSE IF idx.val = 0 THEN NoEntry
        ELSE IF 1 <= idx.val /\ idx.val <= Len(targets) THEN At(targets, idx.val - 1)
        ELSE NoEntry

create_options(resume, resume_session_at) ==
    [resume |-> resume, resume_session_at |-> resume_session_at]


(***************************************************************************)
(* run_session, lines 148-154: truncate history at the first entry whose   *)
(* assistant uuid is rewind_to; the for/else raises when there is none.    *)
(***************************************************************************)
\* the search begun at the second entry
RewindFoundAfterFirst(h, rw) == \E i \in 2..Len(h) : h[i].assistant_uuid = rw

RewindFound(h, rw) == \E i \in 1..Len(h) : h[i].assistant_uuid = rw

\* the slice taken one entry too long
TruncateAfterNext(h, rw) ==
    LET i == CHOOSE k \in 1..Len(h) :
                /\ h[k].assistant_uuid = rw
                /\ \A j \in 1..(k - 1) : h[j].assistant_uuid # rw
    IN  SubSeq(h, 1, IF i < Len(h) THEN i + 1 ELSE i)

Truncate(h, rw) ==
    LET i == CHOOSE k \in 1..Len(h) :
                /\ h[k].assistant_uuid = rw
                /\ \A j \in 1..(k - 1) : h[j].assistant_uuid # rw
    IN  SubSeq(h, 1, i)

\* the selected entry itself taken for the previous one
prev_entry_is_entry(h, entry) == At(h, IndexOf(h, entry))

\* run_session, lines 181-182: the entry before the selected one
prev_entry(h, entry) == At(h, IndexOf(h, entry) - 1)

\* session ids the agent may report in a result event
SessionIds == {"s1", "s2"}

NoMenu == [hist |-> <<>>, line |-> EOF]

Init ==
    /\ session_id = None
    /\ history = <<>>
    /\ rewind_to = NoUuid
    /\ rpc = "start"
    /\ options = create_options(None, NoUuid)
    /\ restored = NoUuid
    /\ user_input = <<>>
    /\ current_user_uuid = NoUuid
    /\ current_assistant_uuid = NoUuid
    /\ interrupted = FALSE
    /\ nevents = 0
    /\ nqueries = 0
    /\ next_uuid = 1
    /\ leading = "none"
    /\ menu = NoMenu

(***************************************************************************)
(* main calls run_session(state, rewind_to): truncation, then the          *)
(* connection is opened with resume and resume_session_at.                 *)
(***************************************************************************)
RunSessionStart ==
    /\ rpc = "start"
    /\ IF rewind_to # NoUuid /\ ~RewindFound(history, rewind_to)
       THEN /\ rpc' = "raised"
            /\ UNCHANGED <<history, options>>
       ELSE /\ history' = IF rewind_to # NoUuid
                          THEN Truncate(history, rewind_to) ELSE history
            /\ options' = create_options(session_id, rewind_to)
            /\ rpc' = "prompt"
    /\ UNCHANGED <<session_id, rewind_to, restored, user_input,
                   current_user_uuid, current_assistant_uuid, interrupted,
                   nevents, nqueries, next_uuid, leading, menu>>
    /\ UNCHANGED <<wvars, ivars>>

\* input("> ") raises EOFError or KeyboardInterrupt, or the line is /exit
InputExit(line) ==
    /\ rpc = "prompt"
    /\ line = EOF \/ Lower(line) = Exit
    /\ rpc' = "exit"
    /\ rewind_to' = NoUuid
    /\ UNCHANGED <<session_id, history, options, restored, user_input,
                   current_user_uuid, current_assistant_uuid, interrupted,
                   nevents, nqueries, next_uuid, leading, menu>>
    /\ UNCHANGED <<wvars, ivars>>

\* /rewind: the menu, then rewind_files and the return of the resume uuid
InputRewind(line, choice) ==
    /\ rpc = "prompt"
    /\ line # EOF /\ Lower(line) # Exit
    /\ Lower(line) = Rewind
    /\ LET entry == show_rewind_menu(history, choice) IN
       IF entry # NoEntry
       THEN /\ restored' = entry.user_uuid
            /\ rewind_to' = prev_entry(history, entry).assistant_uuid
            /\ rpc' = "start"
            /\ menu' = [hist |-> history, line |-> choice]
       ELSE UNCHANGED <<restored, rewind_to, rpc, menu>>
    /\ UNCHANGED <<session_id, history, options, user_input,
                   current_user_uuid, current_assistant_uuid, interrupted,
                   nevents, nqueries, next_uuid, leading>>
    /\ UNCHANGED <<wvars, ivars>>

\* a blank line: continue
InputBlank(line) ==
    /\ rpc = "prompt"
    /\ line # EOF /\ Lower(line) # Exit /\ Lower(line) # Rewind
    /\ Strip(line) = <<>>
    /\ UNCHANGED rvars
    /\ UNCHANGED <<wvars, ivars>>

\* any other line is queried; the turn's uuids start as None
InputQuery(line) ==
    /\ rpc = "prompt"
    /\ line # EOF /\ Lower(line) # Exit /\ Lower(line) # Rewind
    /\ Strip(line) # <<>>
    /\ nqueries < MaxQueries
    /\ user_input' = line
    /\ current_user_uuid' = NoUuid
    /\ current_assistant_uuid' = NoUuid
    /\ interrupted' = FALSE
    /\ nevents' = 0
    /\ nqueries' = nqueries + 1
    /\ rpc' = "stream"
    /\ menu' = NoMenu
    /\ restored' = NoUuid
    /\ leading' = "none"
    /\ UNCHANGED <<session_id, history, rewind_to, options, next_uuid>>
    /\ UNCHANGED <<wvars, ivars>>

(***************************************************************************)
(* The relay loop of run_session, one action per raw message type.         *)
(***************************************************************************)
\* every user event with str content captured, not only the first
RecvUserLast(is_str) ==
    /\ rpc = "stream"
    /\ IF is_str
       THEN /\ current_user_uuid' = next_uuid
            /\ next_uuid' = next_uuid + 1
       ELSE UNCHANGED <<current_user_uuid, next_uuid>>
    /\ leading' = IF leading # "none" THEN leading
                   ELSE IF is_str THEN "str" ELSE "list"
    /\ UNCHANGED <<session_id, history, rewind_to, rpc, options, restored,
                   user_input, current_assistant_uuid, interrupted, nevents,
                   nqueries, menu>>
    /\ UNCHANGED <<wvars, ivars>>

\* type "user": content is a str (the echoed prompt) or a list (tool results)
RecvUser(is_str) ==
    /\ rpc = "stream"
    /\ IF current_user_uuid = NoUuid /\ is_str
       THEN /\ current_user_uuid' = next_uuid
            /\ next_uuid' = next_uuid + 1
       ELSE UNCHANGED <<current_user_uuid, next_uuid>>
    /\ leading' = IF leading # "none" THEN leading
                   ELSE IF is_str THEN "str" ELSE "list"
    /\ UNCHANGED <<session_id, history, rewind_to, rpc, options, restored,
                   user_input, current_assistant_uuid, interrupted, nevents,
                   nqueries, menu>>
    /\ UNCHANGED <<wvars, ivars>>

RecvAssistant ==
    /\ rpc = "stream"
    /\ nevents < MaxEvents
    /\ current_assistant_uuid' = next_uuid
    /\ next_uuid' = next_uuid + 1
    /\ nevents' = nevents + 1
    /\ UNCHANGED <<session_id, history, rewind_to, rpc, options, restored,
                   user_input, current_user_uuid, interrupted, nqueries,
                   leading, menu>>
    /\ UNCHANGED <<wvars, ivars>>

\* any other type (system, ...) matches no branch
RecvOther ==
    /\ rpc = "stream"
    /\ UNCHANGED rvars
    /\ UNCHANGED <<wvars, ivars>>

\* the session id taken from every result event
RecvResultOverwrite(sid) ==
    /\ rpc = "stream"
    /\ session_id' = sid
    /\ history' = IF current_user_uuid # NoUuid /\ current_assistant_uuid # NoUuid
                  THEN add_message(history, current_user_uuid,
                                   current_assistant_uuid, Strip(user_input))
                  ELSE history
    /\ user_input' = <<>>
    /\ current_user_uuid' = NoUuid
    /\ current_assistant_uuid' = NoUuid
    /\ interrupted' = FALSE
    /\ nevents' = 0
    /\ leading' = "none"
    /\ rpc' = "prompt"
    /\ UNCHANGED <<rewind_to, options, restored, nqueries, next_uuid, menu>>
    /\ UNCHANGED <<wvars, ivars>>

RecvResult(sid) ==
    /\ rpc = "stream"
    /\ session_id' = IF session_id = None THEN sid ELSE session_id
    /\ history' = IF current_user_uuid # NoUuid /\ current_assistant_uuid # NoUuid
                  THEN add_message(history, current_user_uuid,
                                   current_assistant_uuid, Strip(user_input))
                  ELSE history
    \* break: the turn's locals and its interrupt channel are gone
    /\ user_input' = <<>>
    /\ current_user_uuid' = NoUuid
    /\ current_assistant_uuid' = NoUuid
    /\ interrupted' = FALSE
    /\ nevents' = 0
    /\ leading' = "none"
    /\ rpc' = "prompt"
    /\ UNCHANGED <<rewind_to, options, restored, nqueries, next_uuid, menu>>
    /\ UNCHANGED <<wvars, ivars>>

\* the watcher reads Esc while the response streams: client.interrupt()
EscInterrupt ==
    /\ rpc = "stream"
    /\ ~interrupted
    /\ interrupted' = TRUE
    /\ UNCHANGED <<session_id, history, rewind_to, rpc, options, restored,
                   user_input, current_user_uuid, current_assistant_uuid,
                   nevents, nqueries, next_uuid, leading, menu>>
    /\ UNCHANGED <<wvars, ivars>>

RewindNext ==
    \/ RunSessionStart
    \/ \E line \in InputLines \cup {EOF} : InputExit(line)
    \/ \E line \in InputLines, choice \in MenuLines : InputRewind(line, choice)
    \/ \E line \in InputLines : InputBlank(line)
    \/ \E line \in InputLines : InputQuery(line)
    \/ \E is_str \in BOOLEAN : RecvUser(is_str)
    \/ RecvAssistant
    \/ RecvOther
    \/ \E sid \in SessionIds : RecvResult(sid)
    \/ EscInterrupt


---------------------------------------------------------------------------
(***************************************************************************)
(* web/backend/api.py.                                                     *)
(***************************************************************************)
Reqs == 1..NumReqs
Clients == 1..MaxStarts

\* a client variable that is None in the source holds NoClient
NoClient == 0

\* sessions the agent kept from before the server started, and the ids it
\* gives to sessions it starts or forks
OldIds == {"s1"}
NewIdNames == <<"n1", "n2", "n3">>
NewIds == {NewIdNames[k] : k \in 1..NumNewIds}
AllIds == OldIds \cup NewIds

(***************************************************************************)
(* Events of receive_response() and the records generate_response yields.  *)
(***************************************************************************)
SystemMessage(sid) == [kind |-> "system", session_id |-> sid, text |-> ""]
AssistantMessage(t) == [kind |-> "assistant", session_id |-> None, text |-> t]
ResultMessage(sid) == [kind |-> "result", session_id |-> sid, text |-> ""]

\* the text of the k-th fragment of a response
Fragments == <<"a", "b", "c">>

MidEvents == {AssistantMessage(Fragments[k]) : k \in 1..Len(Fragments)}

TypeName(ev) ==
    CASE ev.kind = "system" -> "SystemMessage"
      [] ev.kind = "assistant" -> "AssistantMessage"
      [] OTHER -> "ResultMessage"

\* lines 95-103: asdict(message), the type tag, and the tagged text blocks
Record(ev) ==
    [type |-> TypeName(ev),
     session_id |-> ev.session_id,
     content |-> IF ev.kind = "assistant"
                 THEN <<[type |-> "TextBlock", text |-> ev.text]>>
                 ELSE <<>>]

\* only assistant records yielded
EmitAssistantOnly(sink, ev) ==
    IF ev.kind = "assistant" THEN Append(sink, Record(ev)) ELSE sink

\* line 105: the record is yielded to the response stream
Emit(sink, ev) == Append(sink, Record(ev))

\* the assert left out
NeverMismatch(last, sid) == FALSE

\* lines 89-92: the assert on a resumed session's id
SessionIdMismatch(last, sid) == last # None /\ sid # last

\* the registry never consulted
LookupMiss(reg, last) == NoClient

\* line 57
Lookup(reg, last) == IF last # None THEN reg[last] ELSE NoClient

IdleFrame ==
    [pc |-> "idle", last_session_id |-> None, client |-> NoClient,
     found |-> FALSE, session_id |-> None, events |-> <<>>, sink |-> <<>>,
     error |-> None]

Ended(r) == req[r].pc \in {"idle", "failed"}

WebInit ==
    /\ registry = [s \in AllIds |-> NoClient]
    /\ nclients = 0
    /\ agent_sid = [c \in Clients |-> None]
    /\ open_queries = [c \in Clients |-> 0]
    /\ req = [r \in Reqs |-> IdleFrame]
    /\ nstarts = 0
    /\ cited = {}

\* lines 57-77: lookup; on a miss a client is constructed and connect awaited
Start(r, last) ==
    /\ Ended(r)
    /\ nstarts < MaxStarts
    /\ last \in {None} \cup OldIds \cup cited
    /\ nstarts' = nstarts + 1
    /\ LET client == Lookup(registry, last) IN
       IF client = NoClient
       THEN /\ nclients' = nclients + 1
            /\ req' = [req EXCEPT ![r] =
                          [IdleFrame EXCEPT !.pc = "connect",
                                            !.last_session_id = last,
                                            !.client = nclients + 1]]
       ELSE /\ req' = [req EXCEPT ![r] =
                          [IdleFrame EXCEPT !.pc = "query",
                                            !.last_session_id = last,
                                            !.client = client,
                                            !.found = TRUE]]
            /\ UNCHANGED nclients
    /\ UNCHANGED <<registry, agent_sid, open_queries, cited>>
    /\ UNCHANGED <<rvars, ivars>>

\* ids no client's agent reports yet
FreshIds == NewIds \ {agent_sid[c] : c \in Clients}

\* line 75 returns: the agent runs, under the resumed id or under a new one
Connect(r, sid) ==
    /\ req[r].pc = "connect"
    \* line 72: resume=last_session_id
    /\ sid \in FreshIds \cup ({req[r].last_session_id} \ {None})
    /\ agent_sid' = [agent_sid EXCEPT ![req[r].client] = sid]
    /\ req' = [req EXCEPT ![r].pc = "query"]
    /\ UNCHANGED <<registry, nclients, open_queries, nstarts, cited>>
    /\ UNCHANGED <<rvars, ivars>>

\* line 75 raises
ConnectFails(r) ==
    /\ req[r].pc = "connect"
    /\ req' = [req EXCEPT ![r] =
                  [IdleFrame EXCEPT !.pc = "failed", !.error = "ConnectError"]]
    /\ UNCHANGED <<registry, nclients, agent_sid, open_queries,
                   nstarts, cited>>
    /\ UNCHANGED <<rvars, ivars>>

\* line 80: the prompt is sent, whatever else is in flight on the client
Query(r) ==
    /\ req[r].pc = "query"
    /\ open_queries' = [open_queries EXCEPT ![req[r].client] = @ + 1]
    /\ req' = [req EXCEPT ![r].pc = "stream"]
    /\ UNCHANGED <<registry, nclients, agent_sid, nstarts, cited>>
    /\ UNCHANGED <<rvars, ivars>>

AllEvents ==
    {SystemMessage(s) : s \in AllIds} \cup {ResultMessage(s) : s \in AllIds}
        \cup MidEvents

\* the events the connection may deliver next to request r
NextEvents(r) ==
    LET f == req[r]
        sid == agent_sid[f.client]
    IN  IF f.events = <<>>
        THEN {SystemMessage(sid), ResultMessage(sid)} \cup MidEvents
        ELSE {ResultMessage(sid)} \cup
             (IF Len(f.events) <= MaxMid /\ Len(f.events) <= Len(Fragments)
              THEN {AssistantMessage(Fragments[Len(f.events)])} ELSE {})

\* lines 84-105: one iteration of the relay loop, up to and including yield
Recv(r, ev) ==
    /\ req[r].pc = "stream"
    /\ ev \in NextEvents(r)
    /\ LET f == req[r]
           sid == IF ev.kind = "system" THEN ev.session_id ELSE f.session_id
       IN  IF ev.kind = "system" /\ SessionIdMismatch(f.last_session_id, sid)
           THEN /\ req' = [req EXCEPT ![r] =
                             [IdleFrame EXCEPT !.pc = "failed",
                                               !.error = "AssertionError"]]
                /\ UNCHANGED <<registry, open_queries, cited>>
           ELSE IF sid = None
           THEN /\ req' = [req EXCEPT ![r] =
                             [IdleFrame EXCEPT !.pc = "failed",
                                               !.error = "UnboundLocalError"]]
                /\ UNCHANGED <<registry, open_queries, cited>>
           ELSE /\ registry' = [registry EXCEPT ![sid] = f.client]
                /\ req' = [req EXCEPT ![r] =
                             [f EXCEPT !.session_id = sid,
                                       !.events = Append(f.events, ev),
                                       !.sink = Emit(f.sink, ev),
                                       !.pc = IF ev.kind = "result"
                                              THEN "drained" ELSE "stream"]]
                /\ open_queries' = IF ev.kind = "result"
                                   THEN [open_queries EXCEPT ![f.client] = @ - 1]
                                   ELSE open_queries
                /\ cited' = IF ev.kind = "system"
                            THEN cited \cup {sid} ELSE cited
    /\ UNCHANGED <<nclients, agent_sid, nstarts>>
    /\ UNCHANGED <<rvars, ivars>>

\* the loop ends after the result event; finally
Finish(r) ==
    /\ req[r].pc = "drained"
    /\ req' = [req EXCEPT ![r] = IdleFrame]
    /\ UNCHANGED <<registry, nclients, agent_sid, open_queries,
                   nstarts, cited>>
    /\ UNCHANGED <<rvars, ivars>>

\* the client of the response goes away: the generator is closed where it
\* is suspended; finally
Abandon(r) ==
    /\ req[r].pc \in {"connect", "query", "stream", "drained"}
    /\ req' = [req EXCEPT ![r] = IdleFrame]
    /\ UNCHANGED <<registry, nclients, agent_sid, open_queries,
                   nstarts, cited>>
    /\ UNCHANGED <<rvars, ivars>>

WebNext ==
    \/ \E r \in Reqs, last \in {None} \cup AllIds : Start(r, last)
    \/ \E r \in Reqs, sid \in AllIds : Connect(r, sid)
    \/ \E r \in Reqs : ConnectFails(r)
    \/ \E r \in Reqs : Query(r)
    \/ \E r \in Reqs, ev \in AllEvents : Recv(r, ev)
    \/ \E r \in Reqs : Finish(r)
    \/ \E r \in Reqs : Abandon(r)

---------------------------------------------------------------------------
(***************************************************************************)
(* cli-interrupt-py/main.py.  (_watch_esc_key and esc_interruptable of     *)
(* cli-rewind-py/main.py are the same text.)                               *)
(***************************************************************************)
Channels == 1..MaxChannels

\* armed holds NoChannel while main is outside esc_interruptable
NoChannel == 0

Esc == "\\x1b"
Keys == {Esc, "x"}

\* every key taken for Esc
AnyKeyInterrupts(key) == TRUE

\* line 46
IsInterruptKey(key) == key = Esc

NoThread == [st |-> "none", old |-> "cooked"]

WatchInit ==
    /\ mpc = "prompt"
    /\ armed = NoChannel
    /\ nchannels = 0
    /\ wpc = "none"
    /\ fut = "none"
    /\ thread = [k \in Channels |-> NoThread]
    /\ term = "cooked"
    /\ interrupts = 0
    /\ keys = <<>>

\* lines 80-87: end of input or /exit
MainExit(line) ==
    /\ mpc = "prompt"
    /\ line = EOF \/ Lower(line) = Exit
    /\ mpc' = "exit"
    /\ UNCHANGED <<armed, nchannels, wpc, fut, thread, term, interrupts, keys>>
    /\ UNCHANGED <<rvars, wvars>>

\* lines 88-93 and 56-57: the query is sent, the stop pipe made and the
\* watcher task created
MainQuery(line) ==
    /\ mpc = "prompt"
    /\ line # EOF /\ Lower(line) # Exit
    /\ Strip(line) # <<>>
    /\ nchannels < MaxChannels
    /\ mpc' = "stream"
    /\ nchannels' = nchannels + 1
    /\ armed' = nchannels + 1
    /\ wpc' = "created"
    /\ fut' = "none"
    /\ interrupts' = 0
    /\ keys' = <<>>
    /\ UNCHANGED <<thread, term>>
    /\ UNCHANGED <<rvars, wvars>>

\* lines 41-43: the task runs up to its first await of run_in_executor
WatcherStart ==
    /\ wpc = "created"
    /\ armed # NoChannel
    /\ thread' = [thread EXCEPT ![armed].st = "queued"]
    /\ fut' = "pending"
    /\ wpc' = "awaiting"
    /\ UNCHANGED <<mpc, armed, nchannels, term, interrupts, keys>>
    /\ UNCHANGED <<rvars, wvars>>

\* lines 25-29: tcgetattr, then setcbreak
ThreadStart(k) ==
    /\ thread[k].st = "queued"
    /\ thread' = [thread EXCEPT ![k] = [st |-> "select", old |-> term]]
    /\ term' = "cbreak"
    /\ UNCHANGED <<mpc, armed, nchannels, wpc, fut, interrupts, keys>>
    /\ UNCHANGED <<rvars, wvars>>

\* lines 32-39: select finds stdin readable and the stop pipe not; the key
\* is read, the saved settings are restored, the future gets the key
ThreadReadKey(k, key) ==
    /\ thread[k].st = "select"
    /\ k = armed
    /\ Len(keys) < MaxKeys
    /\ term' = thread[k].old
    /\ thread' = [thread EXCEPT ![k] = NoThread]
    /\ fut' = IF fut = "pending" THEN key ELSE fut
    /\ keys' = Append(keys, key)
    /\ UNCHANGED <<mpc, armed, nchannels, wpc, interrupts>>
    /\ UNCHANGED <<rvars, wvars>>

\* lines 32-34, 37-39: select finds the stop pipe readable; None is
\* returned and the saved settings are restored
ThreadStop(k) ==
    /\ thread[k].st = "select"
    /\ k # armed
    /\ term' = thread[k].old
    /\ thread' = [thread EXCEPT ![k] = NoThread]
    /\ fut' = IF k = nchannels /\ fut = "pending" THEN "None" ELSE fut
    /\ UNCHANGED <<mpc, armed, nchannels, wpc, interrupts, keys>>
    /\ UNCHANGED <<rvars, wvars>>

\* lines 43-50: the await returns the key
WatcherResume ==
    /\ wpc = "awaiting"
    /\ fut \in Keys \cup {"None"}
    /\ IF fut = "None"
       THEN /\ wpc' = "done"
            /\ UNCHANGED <<fut, thread, interrupts>>
       ELSE IF IsInterruptKey(fut)
       THEN /\ interrupts' = interrupts + 1
            /\ wpc' = "interrupting"
            /\ UNCHANGED <<fut, thread>>
       ELSE /\ thread' = [thread EXCEPT ![armed].st = "queued"]
            /\ fut' = "pending"
            /\ UNCHANGED <<wpc, interrupts>>
    /\ UNCHANGED <<mpc, armed, nchannels, term, keys>>
    /\ UNCHANGED <<rvars, wvars>>

\* lines 48-49: client.interrupt() returns, and the watcher with it
WatcherInterruptReturns ==
    /\ wpc = "interrupting"
    /\ wpc' = "done"
    /\ UNCHANGED <<mpc, armed, nchannels, fut, thread, term, interrupts, keys>>
    /\ UNCHANGED <<rvars, wvars>>

\* the watcher task left running: neither cancelled nor awaited
MainStreamEndsNoCancel(raised) ==
    /\ mpc = "stream"
    /\ armed' = NoChannel
    /\ mpc' = IF raised THEN "exit" ELSE "prompt"
    /\ UNCHANGED <<nchannels, wpc, fut, thread, term, interrupts, keys>>
    /\ UNCHANGED <<rvars, wvars>>

\* lines 60-68: the body of the with ends, by the end of the response or by
\* an exception; the stop byte is written, the task cancelled and awaited,
\* the pipe closed.  Cancelling the task cancels the future it awaits, and
\* with it a call of read_key_or_stop that no thread has begun; a call that
\* has begun runs on.
MainStreamEnds(raised) ==
    /\ mpc = "stream"
    /\ armed' = NoChannel
    /\ wpc' = IF wpc \in {"created", "awaiting", "interrupting"}
              THEN "cancelled" ELSE wpc
    /\ fut' = IF wpc = "awaiting" THEN "cancelled" ELSE fut
    /\ thread' = IF thread[armed].st = "queued"
                 THEN [thread EXCEPT ![armed] = NoThread] ELSE thread
    /\ mpc' = IF raised THEN "exit" ELSE "prompt"
    /\ UNCHANGED <<nchannels, term, interrupts, keys>>
    /\ UNCHANGED <<rvars, wvars>>

WatchNext ==
    \/ \E line \in InputLines \cup {EOF} : MainExit(line)
    \/ \E line \in InputLines : MainQuery(line)
    \/ WatcherStart
    \/ \E k \in Channels : ThreadStart(k)
    \/ \E k \in Channels, key \in Keys : ThreadReadKey(k, key)
    \/ \E k \in Channels : ThreadStop(k)
    \/ WatcherResume
    \/ WatcherInterruptReturns
    \/ \E raised \in BOOLEAN : MainStreamEnds(raised)

---------------------------------------------------------------------------
(***************************************************************************)
(* Claims about the rewind terminal loop.                                  *)
(***************************************************************************)
\* the history index of the turn the accepted menu line selected: the k-th
\* eligible turn is the turn at index k, the turn at index 0 not being listed
MenuIndex == ParseInt(menu.line).val

\* a rewind has been carried out: selection, restart, truncation, reconnection
Rewound == rpc = "prompt" /\ menu # NoMenu

\* C1 as stated: after a rewind to the turn T at index i > 0 the history is
\* exactly the turns 0..i of the history before, i + 1 turns, T the last one.
C1_KeepsTarget ==
    Rewound => history = SubSeq(menu.hist, 1, MenuIndex + 1)

\* C1 as amended: after a rewind to the turn T at index i > 0 the history is
\* exactly the turns 0..i-1 of the history before, i turns, the turn before
\* T the last one; T and the turns after it are discarded.
C1_TruncatesBeforeTarget ==
    Rewound =>
        /\ Len(history) = MenuIndex
        /\ history = SubSeq(menu.hist, 1, MenuIndex)
        /\ history[Len(history)] = menu.hist[MenuIndex]
        /\ \A k \in (MenuIndex + 1)..Len(menu.hist) :
              \A j \in 1..Len(history) : history[j] # menu.hist[k]

\* a 3-turn history rewound to its second turn (index 1), left with 1 turn
C1_Witness ==
    /\ Rewound
    /\ Len(menu.hist) = 3
    /\ MenuIndex = 1
    /\ Len(history) = 1

\* C2: for the turn T at index i > 0 selected in the menu, rewind_files is
\* called with T's user uuid, and the next connection resumes at the
\* assistant uuid of the turn at index i-1, not at T's or any other turn's.
C2_Checkpoints ==
    /\ (rpc = "start" /\ menu # NoMenu) =>
          /\ restored = menu.hist[MenuIndex + 1].user_uuid
          /\ rewind_to = menu.hist[MenuIndex].assistant_uuid
          /\ \A k \in 1..Len(menu.hist) :
                k # MenuIndex => rewind_to # menu.hist[k].assistant_uuid
    /\ Rewound =>
          /\ restored = menu.hist[MenuIndex + 1].user_uuid
          /\ options.resume_session_at = menu.hist[MenuIndex].assistant_uuid
          /\ \A k \in 1..Len(menu.hist) :
                k # MenuIndex =>
                    options.resume_session_at # menu.hist[k].assistant_uuid

\* the third turn of a 3-turn history selected, and the session reconnected
C2_Witness ==
    /\ Rewound
    /\ Len(menu.hist) = 3
    /\ MenuIndex = 2
    /\ options.resume_session_at = menu.hist[2].assistant_uuid
    /\ restored = menu.hist[3].user_uuid

\* C3: get_rewind_targets() on a history of length L returns L-1 entries when
\* L > 0 and none when L = 0, in history order, never the turn at index 0.
C3_RewindTargets ==
    LET targets == get_rewind_targets(history)
        L == Len(history)
    IN  /\ Len(targets) = IF L > 0 THEN L - 1 ELSE 0
        /\ \A k \in 1..Len(targets) : targets[k] = history[k + 1]
        /\ \A k \in 1..Len(targets) : L > 0 => targets[k] # history[1]

\* one turn listed, after a rewind and a turn recorded since
C3_Witness ==
    /\ Len(history) = 2
    /\ get_rewind_targets(history) = <<history[2]>>
    /\ options.resume_session_at # NoUuid
    /\ menu = NoMenu

(***************************************************************************)
(* run_session called with any rewind_to, as its signature allows: the     *)
(* session has a known id and a history of up to two turns, and rewind_to  *)
(* is None, a uuid of the history or a uuid no turn carries.               *)
(***************************************************************************)
CallHistories ==
    { <<>>,
      <<HistoryEntry(1, 2, <<"h">>)>>,
      <<HistoryEntry(1, 2, <<"h">>), HistoryEntry(3, 4, <<"j">>)>> }

CallInit ==
    /\ session_id = "s1"
    /\ history \in CallHistories
    /\ rewind_to \in 0..5
    /\ rpc = "start"
    /\ options = create_options(None, NoUuid)
    /\ restored = NoUuid
    /\ user_input = <<>>
    /\ current_user_uuid = NoUuid
    /\ current_assistant_uuid = NoUuid
    /\ interrupted = FALSE
    /\ nevents = 0
    /\ nqueries = MaxQueries - 1
    /\ next_uuid = 6
    /\ leading = "none"
    /\ menu = NoMenu

\* run_session is called with a rewind_to that no turn of the history carries
\* as its assistant uuid
RewindNotFound ==
    rpc = "start" /\ rewind_to # NoUuid /\ ~RewindFound(history, rewind_to)

MenuNumber(line) ==
    CASE line = <<"1">> -> 1
      [] line = <<" ", "2">> -> 2
      [] line = <<"3">> -> 3
      [] line = <<"4">> -> 4
      [] line = <<"9">> -> 9
      [] line = <<"-", "1">> -> 0 - 1
      [] OTHER -> 0

\* C12: at the prompt, /rewind followed by a menu line that is 0, empty, not
\* a number, outside 1..N or the end of input, or with no eligible turn, is
\* a step that changes nothing: no checkpoint restored, history, session id
\* and connection as before, the loop at the prompt.  A line k in 1..N
\* selects the k-th eligible turn, the turn at history index k: its user
\* uuid is restored and the session restarts.
C12_MenuCancelNoOp ==
    rpc = "prompt" =>
        \A choice \in MenuLines :
            LET N == IF history = <<>> THEN 0 ELSE Len(history) - 1
                k == MenuNumber(choice)
            IN  IF 1 <= k /\ k <= N
                THEN /\ ENABLED ( /\ InputRewind(RewindMixed, choice)
                                  /\ rpc' = "start"
                                  /\ restored' = history[k + 1].user_uuid
                                  /\ menu'.hist[k + 1] = history[k + 1] )
                     /\ ~ENABLED ( /\ InputRewind(RewindMixed, choice)
                                   /\ ~( /\ rpc' = "start"
                                         /\ restored' = history[k + 1].user_uuid
                                         /\ history' = history
                                         /\ session_id' = session_id ) )
                ELSE /\ ENABLED InputRewind(RewindMixed, choice)
                     /\ ~ENABLED (InputRewind(RewindMixed, choice) /\ vars' # vars)

\* three turns recorded: 0 cancels, 2 selects the turn at index 2
C12_Witness ==
    /\ rpc = "prompt"
    /\ Len(history) = 3
    /\ ENABLED (InputRewind(Rewind, <<"0">>) /\ UNCHANGED vars)
    /\ ENABLED (InputRewind(Rewind, <<" ", "2">>) /\ restored' = history[3].user_uuid)

\* C13: a turn during whose stream the watcher issued an interrupt is never
\* appended to the history, whatever ids were observed before the result.
C13_InterruptedNeverRecorded ==
    [][ (rpc = "stream" /\ interrupted) => history' = history ]_vars

\* C14: while a turn streams the history changes only at the result event,
\* and there by one entry at most: a turn is appended if and only if a user
\* uuid and an assistant uuid were both captured in this turn, and it
\* carries the first user uuid captured (of an event with plain-text
\* content; later ones do not replace it), the uuid of the last assistant
\* event before the result, and the stripped prompt of this turn.
C14_RecordAtResult ==
    [][ rpc = "stream" =>
          /\ rpc' = "stream" => history' = history
          /\ rpc' = "prompt" =>
                history' =
                    IF current_user_uuid # NoUuid /\ current_assistant_uuid # NoUuid
                    THEN Append(history,
                                [user_uuid |-> current_user_uuid,
                                 assistant_uuid |-> current_assistant_uuid,
                                 content |-> Strip(user_input)])
                    ELSE history
          /\ (rpc' = "stream" /\ current_user_uuid # NoUuid) =>
                current_user_uuid' = current_user_uuid
          /\ (rpc' = "stream" /\ current_user_uuid' # current_user_uuid) =>
                /\ RecvUser(TRUE)
                /\ ~RecvUser(FALSE)
                /\ current_user_uuid' = next_uuid
          /\ (rpc' = "stream" /\ next_uuid' # next_uuid
                /\ current_user_uuid' = current_user_uuid) =>
                current_assistant_uuid' = next_uuid ]_vars

\* the turn of the prompt " j": a plain-text user event (uuid 1), two
\* assistant events (uuids 2 and 3); the entry recorded carries 1, 3 and "j"
C14_Witness ==
    /\ rpc = "prompt"
    /\ history = <<HistoryEntry(1, 3, <<"j">>)>>
    /\ nqueries = 1

\* C15: a turn whose first user event has no plain-text content is never
\* recorded into the history, whatever user and assistant events follow it
\* before the result.
C15_LeadingToolResultNeverRecorded ==
    [][ (rpc = "stream" /\ leading = "list") => history' = history ]_vars

\* C19: from the terminal loop the rewind-not-found failure cannot happen.
\* Every uuid run_session returns to main after a menu selection is the
\* assistant uuid of a turn of the history the next run_session starts
\* with, the truncation finds it, and the history is not empty after a
\* rewind, so the read of its last entry after reconnecting succeeds.
C19_RewindAlwaysFound ==
    /\ rpc # "raised"
    /\ (rpc = "start" /\ menu # NoMenu) =>
          /\ rewind_to # NoUuid
          /\ \E i \in 1..Len(history) : history[i].assistant_uuid = rewind_to
    /\ (rpc = "start" /\ menu = NoMenu) => rewind_to = NoUuid
    /\ Rewound =>
          /\ history # <<>>
          /\ history[Len(history)].assistant_uuid = rewind_to

\* a 2-turn history rewound to its second turn: the first turn is found and
\* is the one left
C19_Witness ==
    /\ Rewound
    /\ Len(menu.hist) = 2
    /\ history = <<menu.hist[1]>>
    /\ rewind_to = menu.hist[1].assistant_uuid

\* C20: the session id is set at the first result event and never changes
\* afterwards; whenever the history is not empty the session id is known;
\* every connection opened for a rewind resumes that same known session.
C20_SessionIdStable ==
    [][ /\ session_id # None => session_id' = session_id
        /\ (session_id = None /\ session_id' # None) =>
              rpc = "stream" /\ rpc' = "prompt"
        /\ (rpc = "stream" /\ rpc' = "prompt") => session_id' # None
        /\ history' # <<>> => session_id' # None
        /\ options'.resume_session_at # NoUuid =>
              /\ options'.resume # None
              /\ options'.resume = session_id' ]_vars

\* the agent reported s2 at the first result event; after two turns and a
\* rewind the connection resumes s2
C20_Witness ==
    /\ Rewound
    /\ session_id = "s2"
    /\ options.resume = "s2"
    /\ options.resume_session_at # NoUuid
    /\ nqueries = 2

---------------------------------------------------------------------------
(***************************************************************************)
(* Claims about the web backend.                                           *)
(***************************************************************************)
Open(r) == req[r].pc \in {"connect", "query", "stream", "drained"}
Connected(r) == req[r].pc \in {"query", "stream", "drained"}

\* C4: two requests that arrive with the same last_session_id, not in the
\* registry, never create two live connections for that id.
C4_NoTwoConnectionsForOneId ==
    \A r, q \in Reqs :
        ( /\ r # q
          /\ Connected(r) /\ Connected(q)
          /\ ~req[r].found /\ ~req[q].found
          /\ req[r].last_session_id # None
          /\ req[r].last_session_id = req[q].last_session_id )
        => ~( /\ req[r].client # req[q].client
              /\ agent_sid[req[r].client] = req[r].last_session_id
              /\ agent_sid[req[q].client] = req[q].last_session_id )

\* C5: requests carrying a session id that was in the registry when they
\* arrived all hold the same client, and a request without a session id
\* holds a client that no other request holds unless it found it in the
\* registry.
C5_KnownIdOneHandle ==
    /\ \A r, q \in Reqs :
          ( /\ Open(r) /\ Open(q)
            /\ req[r].found /\ req[q].found
            /\ req[r].last_session_id = req[q].last_session_id )
          => req[r].client = req[q].client
    /\ \A r, q \in Reqs :
          ( /\ r # q
            /\ Open(r) /\ Open(q)
            /\ req[r].last_session_id = None
            /\ req[q].client = req[r].client )
          => req[q].found

\* C6: no two queries are in flight on one connection.
C6_NoOverlappingQueries ==
    \A c \in Clients : open_queries[c] <= 1

\* C7: the sink of a request holds exactly one record per event consumed,
\* in the order consumed, each emitted before the next event is consumed;
\* the events begin with init, the result event is the last one, and once
\* it is relayed nothing more is emitted.
C7_RelayOrdering ==
    \A r \in Reqs :
        req[r].pc \in {"stream", "drained"} =>
            LET ev == req[r].events
                sink == req[r].sink
            IN  /\ Len(sink) = Len(ev)
                /\ \A i \in 1..Len(ev) : sink[i] = Record(ev[i])
                /\ ev # <<>> => ev[1].kind = "system"
                /\ \A i \in 1..Len(ev) :
                      ev[i].kind = "result" <=> (req[r].pc = "drained" /\ i = Len(ev))
                /\ \A i \in 1..Len(sink) :
                      /\ sink[i].type = "ResultMessage" <=>
                            (req[r].pc = "drained" /\ i = Len(sink))
                      /\ sink[i].type = "SystemMessage" <=> i = 1

\* the scripted response init, assistant "a", assistant "b", result, relayed
C7_Witness ==
    \E r \in Reqs :
        /\ req[r].pc = "drained"
        /\ Len(req[r].events) = 4
        /\ req[r].events[2] = AssistantMessage("a")
        /\ req[r].events[3] = AssistantMessage("b")
        /\ req[r].sink = << Record(SystemMessage(req[r].session_id)),
                            [type |-> "AssistantMessage", session_id |-> None,
                             content |-> <<[type |-> "TextBlock", text |-> "a"]>>],
                            [type |-> "AssistantMessage", session_id |-> None,
                             content |-> <<[type |-> "TextBlock", text |-> "b"]>>],
                            Record(ResultMessage(req[r].session_id)) >>

\* C10: when the first event of a request that carries a last_session_id
\* comes from an agent whose session id differs from it, the request fails
\* and the registry is left as it was.
C10_MismatchFails ==
    [][ \A r \in Reqs :
          ( /\ req[r].pc = "stream"
            /\ req[r].events = <<>>
            /\ req[r].last_session_id # None
            /\ agent_sid[req[r].client] # req[r].last_session_id
            /\ req'[r] # req[r]
            /\ req'[r] # IdleFrame )
          => /\ req'[r].pc = "failed"
             /\ req'[r].error \in {"AssertionError", "UnboundLocalError"}
             /\ registry' = registry ]_vars

\* a request failed on the assert, and the registry holds neither id
C10_Witness ==
    \E r \in Reqs :
        /\ req[r].pc = "failed"
        /\ req[r].error = "AssertionError"
        /\ \A s \in AllIds : registry[s] = NoClient


\* C16: the registry entry of a session id is written once, by the request
\* that observes the init event carrying the id; events of other kinds
\* write nothing, and an id once mapped to a connection is never mapped to
\* a different one.
C16_MappingNeverReplaced ==
    [][ /\ \A s \in AllIds :
             registry[s] # NoClient => registry'[s] = registry[s]
        /\ registry' # registry =>
             \E r \in Reqs :
                 /\ req[r].pc = "stream"
                 /\ req'[r].events = Append(req[r].events, SystemMessage(req'[r].session_id))
                 /\ registry' = [registry EXCEPT ![req'[r].session_id] = req[r].client]
      ]_vars

\* C18: the registry entry of a session id is written before the init
\* record carrying the id is emitted, so every id some client has received
\* is in the registry, and a request that cites such an id finds the
\* registered connection and uses it, constructing none.
C18_PublishedBeforeEmitted ==
    [][ /\ \A s \in cited' : registry'[s] # NoClient
        /\ \A r \in Reqs : \A i \in 1..Len(req'[r].sink) :
               req'[r].sink[i].type = "SystemMessage" =>
                   registry'[req'[r].sink[i].session_id] # NoClient
        /\ \A r \in Reqs :
              ( /\ req[r].pc \in {"idle", "failed"}
                /\ req'[r].pc \notin {"idle", "failed"}
                /\ req'[r].last_session_id \in cited )
              => /\ req'[r].found
                 /\ req'[r].pc = "query"
                 /\ req'[r].client = registry[req'[r].last_session_id]
                 /\ nclients' = nclients ]_vars

\* a client received the id n1 the agent gave to a new session, and a
\* later request citing n1 streams on the registered connection
C18_Witness ==
    \E r \in Reqs :
        /\ req[r].pc = "stream"
        /\ req[r].last_session_id = "n1"
        /\ "n1" \in cited
        /\ req[r].found
        /\ req[r].client = registry["n1"]

---------------------------------------------------------------------------
(***************************************************************************)
(* Claims about the Esc watcher.                                           *)
(***************************************************************************)
\* read_key_or_stop returned Esc for the last channel armed
EscRead == \E i \in 1..Len(keys) : keys[i] = Esc

\* the last channel armed has been torn down
ChannelClosed == armed = NoChannel /\ nchannels > 0

\* C8 as stated: once the channel is closed, interrupt was called exactly
\* once if Esc was read before the stop signal and not at all otherwise;
\* no other key causes an interrupt; at most one interrupt per channel.
C8_EscReadInterruptsOnce ==
    /\ interrupts <= 1
    /\ interrupts = 1 => EscRead
    /\ ChannelClosed => interrupts = (IF EscRead THEN 1 ELSE 0)

\* C8 as amended: at most one interrupt per channel, none unless Esc was
\* read; once the watcher task has received Esc it has called interrupt
\* once and watches no more; an Esc that read_key_or_stop returned and the
\* task had not yet received when the owning call tore the channel down is
\* discarded with the cancelled task; after any other key, and until the
\* stop signal, the watcher keeps watching.
C8_WatcherOutcomes ==
    /\ interrupts <= 1
    /\ interrupts = 1 =>
          /\ EscRead
          /\ wpc \in {"interrupting", "done", "cancelled"}
          /\ thread[nchannels].st = "none"
    /\ ~EscRead => interrupts = 0
    /\ (EscRead /\ interrupts = 0) =>
          \/ armed # NoChannel /\ wpc = "awaiting" /\ fut = Esc
          \/ ChannelClosed /\ wpc = "cancelled" /\ fut = "cancelled"
    /\ (armed # NoChannel /\ ~EscRead) => wpc \in {"created", "awaiting"}
    /\ ChannelClosed => wpc \in {"done", "cancelled"}

\* another key and then Esc were read, one interrupt was made, the watcher
\* returned and the channel was torn down
C8_Witness ==
    /\ ChannelClosed
    /\ keys = <<"x", Esc>>
    /\ interrupts = 1
    /\ wpc = "done"

\* C9: once esc_interruptable's exit has returned, no call of
\* read_key_or_stop is running, the watcher has ended and the terminal is
\* in the input mode it had before.
C9_TeardownComplete ==
    armed = NoChannel =>
        /\ \A k \in Channels : thread[k].st = "none"
        /\ wpc \in {"none", "done", "cancelled"}
        /\ term = "cooked"

\* the watcher task has not started or has ended
WatcherEnded == wpc \in {"none", "done", "cancelled"}

\* C17: turns are strictly sequential.  A response streams exactly while a
\* channel is armed, and that is the last one armed; a query is issued only
\* from the prompt, after the relay loop of the turn before has exited, its
\* channel is torn down and its watcher task has ended; outside a stream no
\* watcher task is alive and no key-reading call waits to be started, so
\* there is at most one stream and one watcher task at a time.
C17_TurnsSequential ==
    [][ /\ (mpc' = "stream") <=> (armed' # NoChannel)
        /\ armed' \in {NoChannel, nchannels'}
        /\ armed' = NoChannel => WatcherEnded'
        /\ \A k \in Channels : k # armed' => thread'[k].st # "queued"
        /\ nchannels' # nchannels =>
              /\ mpc = "prompt" /\ mpc' = "stream"
              /\ armed = NoChannel
              /\ WatcherEnded
              /\ nchannels' = nchannels + 1
        /\ (mpc = "stream" /\ mpc' # "stream") =>
              /\ armed' = NoChannel
              /\ nchannels' = nchannels ]_vars

\* the second turn streams, its watcher waiting for a key; the channel of
\* the first turn is gone
C17_Witness ==
    /\ mpc = "stream"
    /\ nchannels = 2
    /\ armed = 2
    /\ wpc = "awaiting"
    /\ thread[2].st = "select"
    /\ thread[1].st = "none"

---------------------------------------------------------------------------
(***************************************************************************)
(* The specifications.  Every variable has its initial value in each; a    *)
(* specification takes the steps of its own program only.                  *)
(***************************************************************************)
AllInit == Init /\ WebInit /\ WatchInit

Spec == AllInit /\ [][RewindNext]_vars

WebSpec == AllInit /\ [][WebNext]_vars

WatchSpec == AllInit /\ [][WatchNext]_vars

CallAllInit == CallInit /\ WebInit /\ WatchInit

CallSpec == CallAllInit /\ [][RewindNext]_vars

=============================================================================
